---- MODULE Spec2Model ----
(***************************************************************************)
(* Model of MPMOQLearning, the outer loop of multi-policy MO Q-learning    *)
(* (morl_baselines/multi_policy/multi_policy_moqlearning/                  *)
(* mp_mo_q_learning.py).                                                   *)
(*                                                                         *)
(* Python lists are modelled as TLA+ sequences; a Python position i        *)
(* (0-based) is the TLA+ position i + 1.  Objects that Python shares by    *)
(* reference (the Q-tables) live in the heap q_tables and are named by     *)
(* their reference.  Vectors have integer components, so that np.dot and   *)
(* np.argmax are exact.                                                    *)
(***************************************************************************)
EXTENDS Integers, Sequences, FiniteSets, TLC

VARIABLES
    pc,                     \* position of the program (see the actions)
    weight_selection_algo,  \* self.weight_selection_algo
    use_gpi_policy,         \* self.use_gpi_policy
    transfer_q_table,       \* self.transfer_q_table
    log,                    \* self.log
    writer,                 \* self.writer: "none", "open" or "closed"
    policies,               \* self.policies, a list of MOQLearning objects
    q_tables,               \* heap: reference -> contents of a Q-table
    allocated,              \* heap: number of tables allocated so far
    ccs,                    \* self.linear_support.ccs, a list of value vectors
    producer,               \* history: producer[i] is the id of the policy whose
                            \* evaluation was submitted as ccs[i]
    global_step,            \* self.global_step
    num_iterations,         \* train(): num_iterations
    timesteps_per_iteration,\* train(): timesteps_per_iteration
    iter,                   \* train(): the loop variable
    w,                      \* train(): w; eval(): the queried weight
    new_agent,              \* train(): new_agent, a reference by id
    value,                  \* train(): value
    removed_inds,           \* train(): removed_inds
    next_weight_call,       \* arguments of the last linear_support.next_weight call
    last_log,               \* the last log_all_multi_policy_metrics call: <<>> or <<arguments>>
    obs,                    \* eval(): obs
    delete_indx,            \* delete_policies(): delete_indx
    outcome                 \* what the last public call did: returned or raised

vars == <<pc, weight_selection_algo, use_gpi_policy, transfer_q_table, log, writer,
          policies, q_tables, allocated, ccs, producer, global_step, num_iterations,
          timesteps_per_iteration, iter, w, new_agent, value, removed_inds,
          next_weight_call, last_log, obs, delete_indx, outcome>>

(***************************************************************************)
(* Bounds of the model.                                                    *)
(***************************************************************************)
MaxIterations == 3          \* train() is called with num_iterations in 0..MaxIterations
MaxPool == 2                \* largest pool and frontier drawn for a call of eval()
MaxDelete == 4              \* largest pool drawn for a call of delete_policies()
MaxIndices == 3             \* longest index list drawn for a call of delete_policies()

Algos == {"random", "ols", "gpi-ls", "sgd"}     \* values given for weight_selection_algo
Weights == {<<1, 0>>, <<0, 1>>}                 \* weight vectors (k = 2 objectives)
QueryWeights == {<<1, 0>>, <<0, 1>>, <<1, 1>>}  \* weights queried through eval()
Values == {<<1, 0>>, <<0, 1>>}                  \* value vectors an evaluation returns
QVecs == {<<0, 0>>, <<1, 0>>, <<0, 1>>}         \* Q-vector of one (state, action) pair
States == {0}                                   \* observations
Actions == {0, 1}                               \* the environment's actions
StepBudgets == {1, 2}                           \* values of timesteps_per_iteration

None == "None"
\* a local variable that was never assigned
Unbound == <<>>

\* no call of linear_support.next_weight was made
NoCall == [algo |-> None, gpi_agent |-> None, env |-> None]

(***************************************************************************)
(* numpy and list helpers.                                                 *)
(***************************************************************************)
RECURSIVE SumTo(_, _)
SumTo(f, n) == IF n = 0 THEN 0 ELSE f[n] + SumTo(f, n - 1)

\* np.dot(u, v) of two vectors of the same length
Dot(u, v) == SumTo([i \in 1..Len(u) |-> u[i] * v[i]], Len(u))

\* weighted_sum(q, w)
weighted_sum(q, wt) == Dot(q, wt)

\* np.argmax(xs) of a non-empty list: the 0-based position of the first maximum
ArgMax(xs) ==
    CHOOSE i \in 0..(Len(xs) - 1) :
        /\ \A j \in 0..(Len(xs) - 1) : xs[j + 1] <= xs[i + 1]
        /\ \A j \in 0..(i - 1) : xs[j + 1] < xs[i + 1]

\* list.pop(i) accepts i in -len..len-1; a negative i counts from the end
ValidIndex(xs, i) == -Len(xs) <= i /\ i < Len(xs)

Normalize(xs, i) == IF i < 0 THEN i + Len(xs) ELSE i

\* the list after xs.pop(i), for a valid i
Pop(xs, i) ==
    [j \in 1..(Len(xs) - 1) |-> IF j <= Normalize(xs, i) THEN xs[j] ELSE xs[j + 1]]

\* sorted(xs, reverse=True)
RECURSIVE InsertDesc(_, _)
InsertDesc(x, xs) ==
    IF xs = <<>> THEN <<x>>
    ELSE IF x >= Head(xs) THEN <<x>> \o xs
    ELSE <<Head(xs)>> \o InsertDesc(x, Tail(xs))

RECURSIVE SortedDesc(_)
SortedDesc(xs) == IF xs = <<>> THEN <<>> ELSE InsertDesc(Head(xs), SortedDesc(Tail(xs)))

(***************************************************************************)
(* The sub-policy (MOQLearning) and its Q-table.  A policy is the record   *)
(* [id, weights, q_table, global_step]; q_table is a reference into the    *)
(* heap.  A table maps a state to one Q-vector per action.                 *)
(***************************************************************************)
NumActions == Cardinality(Actions)

Rows == [1..NumActions -> QVecs]

Tables == [States -> Rows]

\* the table of a policy that has learned nothing yet: all zeros
FreshTable == [s \in States |-> [a \in 1..NumActions |-> <<0, 0>>]]

\* policy.scalarized_q_values(state, w): one scalar per action
scalarized_q_values(policy, heap, state, wt) ==
    [a \in 1..NumActions |-> weighted_sum(heap[policy.q_table][state][a], wt)]

\* policy.eval(obs, w): the policy's own greedy action under w
SubPolicyEval(policy, heap, state, wt) ==
    ArgMax(scalarized_q_values(policy, heap, state, wt))

(***************************************************************************)
(* MPMOQLearning._gpi_action and MPMOQLearning.eval.  The result is the    *)
(* record [raised, action, by]: the exception raised (or None), the action *)
(* returned, and the pool position eval delegated to (best-match branch).  *)
(***************************************************************************)
Raise(exc) == [raised |-> exc, action |-> None, by |-> None]

\* q_vals.flatten(): row-major, one row per policy
Flatten(q_vals) ==
    [k \in 1..(Len(q_vals) * NumActions) |->
        q_vals[((k - 1) \div NumActions) + 1][((k - 1) % NumActions) + 1]]

\* a selector that takes the worst pair instead of the best
ArgMin(xs) ==
    CHOOSE i \in 0..(Len(xs) - 1) :
        /\ \A j \in 0..(Len(xs) - 1) : xs[j + 1] >= xs[i + 1]
        /\ \A j \in 0..(i - 1) : xs[j + 1] > xs[i + 1]

gpi_action_argmin(pool, heap, state, wt) ==
    IF pool = <<>> THEN Raise("ValueError")
    ELSE LET q_vals == [p \in 1..Len(pool) |-> scalarized_q_values(pool[p], heap, state, wt)]
         IN [raised |-> None, action |-> ArgMin(Flatten(q_vals)) % NumActions, by |-> None]

\* a selector that consults the first policy only
gpi_action_first_policy(pool, heap, state, wt) ==
    IF pool = <<>> THEN Raise("ValueError")
    ELSE [raised |-> None,
          action |-> ArgMax(scalarized_q_values(pool[1], heap, state, wt)),
          by |-> None]

\* a selector that scans the table column by column (action first, then policy)
gpi_action_column_major(pool, heap, state, wt) ==
    IF pool = <<>> THEN Raise("ValueError")
    ELSE LET q_vals == [p \in 1..Len(pool) |-> scalarized_q_values(pool[p], heap, state, wt)]
             columns == [k \in 1..(Len(pool) * NumActions) |->
                            q_vals[((k - 1) % Len(pool)) + 1][((k - 1) \div Len(pool)) + 1]]
         IN  [raised |-> None, action |-> ArgMax(columns) \div Len(pool), by |-> None]

\* a selector that answers for an empty pool
gpi_action_default(pool, heap, state, wt) ==
    LET q_vals == [p \in 1..Len(pool) |-> scalarized_q_values(pool[p], heap, state, wt)]
    IN  IF pool = <<>> THEN [raised |-> None, action |-> 0, by |-> None]
        ELSE [raised |-> None, action |-> ArgMax(Flatten(q_vals)) % NumActions, by |-> None]

_gpi_action(pool, heap, state, wt) ==
    IF pool = <<>>
    THEN Raise("ValueError")            \* np.stack of an empty list
    ELSE LET q_vals == [p \in 1..Len(pool) |-> scalarized_q_values(pool[p], heap, state, wt)]
             \* np.unravel_index(np.argmax(q_vals), q_vals.shape)[1]
             action == ArgMax(Flatten(q_vals)) % NumActions
         IN  [raised |-> None, action |-> action, by |-> None]

\* a best-match branch that takes the worst-matching frontier entry
best_match_worst(pool, heap, front, state, wt) ==
    IF front = <<>> THEN Raise("ValueError")
    ELSE LET best_policy == ArgMin([i \in 1..Len(front) |-> Dot(wt, front[i])])
         IN  IF best_policy >= Len(pool) THEN Raise("IndexError")
             ELSE [raised |-> None,
                   action |-> SubPolicyEval(pool[best_policy + 1], heap, state, wt),
                   by |-> best_policy]

\* the best-match branch of eval
BestMatch(pool, heap, front, state, wt) ==
    IF front = <<>>
    THEN Raise("ValueError")            \* np.argmax of an empty list
    ELSE LET best_policy == ArgMax([i \in 1..Len(front) |-> Dot(wt, front[i])])
         IN  IF best_policy >= Len(pool)
             THEN Raise("IndexError")   \* self.policies[best_policy]
             ELSE [raised |-> None,
                   action |-> SubPolicyEval(pool[best_policy + 1], heap, state, wt),
                   by |-> best_policy]

eval(pool, heap, front, gpi, state, wt) ==
    IF gpi THEN _gpi_action(pool, heap, state, wt)
    ELSE BestMatch(pool, heap, front, state, wt)

(***************************************************************************)
(* MPMOQLearning.delete_policies.  The result is the pool as the call      *)
(* leaves it and the exception it raised (or None).                        *)
(***************************************************************************)
\* for i in idxs: pool.pop(i)
RECURSIVE PopEach(_, _)
PopEach(pool, idxs) ==
    IF idxs = <<>> THEN [policies |-> pool, raised |-> None]
    ELSE IF ValidIndex(pool, Head(idxs)) THEN PopEach(Pop(pool, Head(idxs)), Tail(idxs))
    ELSE [policies |-> pool, raised |-> "IndexError"]

\* the reverse of a list
Reverse(xs) == [i \in 1..Len(xs) |-> xs[Len(xs) + 1 - i]]

\* a deletion that pops in ascending order of index
delete_policies_ascending(pool, idxs) == PopEach(pool, Reverse(SortedDesc(idxs)))

\* a deletion that spares the last position, where the newest policy sits
delete_policies_keep_last(pool, idxs) ==
    LET NotLast(i) == i # Len(pool) - 1
    IN  PopEach(pool, SortedDesc(SelectSeq(idxs, NotLast)))

\* a deletion that removes nothing
delete_policies_skip(pool, idxs) == [policies |-> pool, raised |-> None]

\* a deletion that pops in the order the indices are listed
delete_policies_unsorted(pool, idxs) == PopEach(pool, idxs)

delete_policies(pool, idxs) == PopEach(pool, SortedDesc(idxs))

(***************************************************************************)
(* The heap of Q-tables.                                                   *)
(***************************************************************************)
\* the reference of the next table allocated, when n were allocated before
NewRef(n) == n + 1

\* what is left of the heap when only the policies of pool are alive
Collect(heap, pool) ==
    [r \in {pool[i].q_table : i \in 1..Len(pool)} \cap DOMAIN heap |-> heap[r]]

\* an assignment that shares the source's table instead of copying it
share_reference(heap, ref, fresh) == [ref |-> ref, heap |-> heap]

\* deepcopy(table): a new table with the same contents, under the reference fresh
deepcopy(heap, ref, fresh) == [ref |-> fresh, heap |-> (fresh :> heap[ref]) @@ heap]

(***************************************************************************)
(* The frontier service (LinearSupport), by its contract: add_solution     *)
(* appends the submitted value, removes the entries it reports and returns *)
(* their positions; the positions are those of the pool, whose last entry  *)
(* is the policy just trained.                                             *)
(***************************************************************************)
\* xs without the entries at the 0-based positions in S, order kept
RECURSIVE Without(_, _)
Without(xs, S) ==
    IF xs = <<>> THEN <<>>
    ELSE LET rest == Without(SubSeq(xs, 1, Len(xs) - 1), S)
         IN  IF (Len(xs) - 1) \in S THEN rest ELSE Append(rest, xs[Len(xs)])

\* the positions of S listed in ascending order
RECURSIVE Ascending(_)
Ascending(S) ==
    IF S = {} THEN <<>>
    ELSE LET m == CHOOSE x \in S : \A y \in S : y <= x
         IN  Append(Ascending(S \ {m}), m)

\* the lists add_solution may return for the set S of removed positions
Listings(S) == {Ascending(S), SortedDesc(Ascending(S))}

add_solution(front, v, S) == Without(Append(front, v), S)

(***************************************************************************)
(* MPMOQLearning.__init__                                                  *)
(***************************************************************************)
\* a constructor that accepts every strategy name
accepts_any_algo(algo) == TRUE

\* the assertion on weight_selection_algo
KnownAlgo(algo) == algo \in {"random", "ols", "gpi-ls"}

Construct ==
    /\ pc = "new"
    /\ \E algo \in Algos, gpi \in BOOLEAN, transfer \in BOOLEAN, lg \in BOOLEAN :
        /\ use_gpi_policy' = gpi
        /\ transfer_q_table' = transfer
        /\ policies' = <<>>
        /\ weight_selection_algo' = algo
        /\ IF KnownAlgo(algo)
           THEN /\ log' = lg
                /\ writer' = IF lg THEN "open" ELSE None
                /\ pc' = "ready"
           ELSE /\ UNCHANGED <<log, writer>>
                /\ pc' = "rejected"         \* AssertionError
    /\ UNCHANGED <<q_tables, allocated, ccs, producer, global_step, num_iterations,
                   timesteps_per_iteration, iter, w, new_agent, value, removed_inds,
                   next_weight_call, last_log, obs, delete_indx, outcome>>

(***************************************************************************)
(* MPMOQLearning.train, one action per step of an iteration.               *)
(***************************************************************************)
TrainCall ==
    /\ pc = "ready"
    /\ \E n \in 0..MaxIterations, t \in StepBudgets :
        /\ num_iterations' = n
        /\ timesteps_per_iteration' = t
    /\ iter' = 0
    /\ pc' = "loop"
    /\ UNCHANGED <<weight_selection_algo, use_gpi_policy, transfer_q_table, log, writer,
                   policies, q_tables, allocated, ccs, producer, global_step, w, new_agent,
                   value,
                   removed_inds, next_weight_call, last_log, obs, delete_indx, outcome>>

\* a call that passes the coordinator and the environment whatever the strategy
next_weight_args_always_gpi(algo) ==
    [algo |-> algo, gpi_agent |-> "self", env |-> "eval_env"]

\* the arguments train passes to linear_support.next_weight
NextWeightArgs(algo) ==
    [algo |-> algo,
     gpi_agent |-> IF algo = "gpi-ls" THEN "self" ELSE None,
     env |-> IF algo = "gpi-ls" THEN "eval_env" ELSE None]

SelectWeight ==
    /\ pc = "loop"
    /\ iter < num_iterations
    /\ IF weight_selection_algo = "ols" \/ weight_selection_algo = "gpi-ls"
       THEN /\ w' \in Weights
            /\ next_weight_call' = NextWeightArgs(weight_selection_algo)
       ELSE IF weight_selection_algo = "random"
       THEN /\ w' \in Weights
            /\ UNCHANGED next_weight_call
       ELSE UNCHANGED <<w, next_weight_call>>
    /\ pc' = "create"
    /\ UNCHANGED <<weight_selection_algo, use_gpi_policy, transfer_q_table, log, writer,
                   policies, q_tables, allocated, ccs, producer, global_step,
                   num_iterations,
                   timesteps_per_iteration, iter, new_agent, value, removed_inds,
                   last_log, obs, delete_indx, outcome>>

\* the tables a sub-policy's training may end with
TrainedTables ==
    {[s \in States |-> <<(<<1, 0>>), (<<0, 1>>)>>],
     [s \in States |-> <<(<<0, 1>>), (<<1, 0>>)>>]}

\* a construction that does not pass the selected weight on
new_agent_default_weights(fresh, id, wt) ==
    [id |-> id, weights |-> <<1, 0>>, q_table |-> fresh, global_step |-> 0]

\* the new MOQLearning object: its own empty table, its step counter at 0
NewAgent(fresh, id, wt) ==
    [id |-> id, weights |-> wt, q_table |-> fresh, global_step |-> 0]

\* a selection that takes the newest frontier entry
best_index_newest(front, wt) == Len(front) - 1

\* the position np.argmax([np.dot(w, v) for v in ccs]) selects
BestIndex(front, wt) == ArgMax([i \in 1..Len(front) |-> Dot(wt, front[i])])

\* an insertion that puts the new policy first
add_to_front(pool, agent) == <<agent>> \o pool

\* self.policies.append(new_agent)
AddToPool(pool, agent) == Append(pool, agent)

CreatePolicy ==
    /\ pc = "create"
    /\ IF w = Unbound
       THEN /\ pc' = "error"                \* UnboundLocalError: w
            /\ UNCHANGED <<policies, q_tables, allocated, new_agent>>
       ELSE IF transfer_q_table /\ Len(policies) > 0
       THEN IF ccs = <<>> \/ BestIndex(ccs, w) >= Len(policies)
            THEN /\ pc' = "error"           \* np.argmax of [], or policies[reuse_ind]
                 /\ UNCHANGED <<policies, q_tables, allocated, new_agent>>
            ELSE LET reuse_ind == BestIndex(ccs, w)
                     copy == deepcopy(q_tables, policies[reuse_ind + 1].q_table,
                                      NewRef(allocated))
                     agent == [NewAgent(NewRef(allocated), iter, w) EXCEPT
                                  !.q_table = copy.ref]
                 IN  /\ policies' = AddToPool(policies, agent)
                     /\ q_tables' = copy.heap
                     /\ allocated' = allocated + 1
                     /\ new_agent' = [id |-> iter]
                     /\ pc' = "train"
       ELSE LET agent == NewAgent(NewRef(allocated), iter, w)
            IN  /\ policies' = AddToPool(policies, agent)
                /\ q_tables' = (agent.q_table :> FreshTable) @@ q_tables
                /\ allocated' = allocated + 1
                /\ new_agent' = [id |-> iter]
                /\ pc' = "train"
    /\ UNCHANGED <<weight_selection_algo, use_gpi_policy, transfer_q_table, log, writer,
                   ccs, producer, global_step, num_iterations, timesteps_per_iteration,
                   iter, w, value, removed_inds, next_weight_call, last_log, obs,
                   delete_indx, outcome>>

\* a hand-over that leaves the new agent's counter where its constructor put it
keep_agent_step(self_step, agent) == agent.global_step

\* new_agent.global_step = self.global_step
HandOverStep(self_step, agent) == self_step

\* MOQLearning.train(total_timesteps, reset_num_timesteps=False): the counter
\* continues from where it stands and advances by total_timesteps
SubPolicyTrain(agent, total_timesteps) ==
    [agent EXCEPT !.global_step = agent.global_step + total_timesteps]

Train ==
    /\ pc = "train"
    /\ LET last == Len(policies)
           started == [policies[last] EXCEPT
                          !.global_step = HandOverStep(global_step, policies[last])]
           trained == SubPolicyTrain(started, timesteps_per_iteration)
       IN  /\ policies' = [policies EXCEPT ![last] = trained]
           /\ \E t \in TrainedTables : q_tables' = [q_tables EXCEPT ![trained.q_table] = t]
           /\ global_step' = trained.global_step
    /\ pc' = "evaluate"
    /\ UNCHANGED <<allocated, weight_selection_algo, use_gpi_policy, transfer_q_table, log,
                   writer,
                   ccs, producer, num_iterations, timesteps_per_iteration, iter, w,
                   new_agent, value, removed_inds, next_weight_call, last_log, obs,
                   delete_indx, outcome>>

\* new_agent.train raises
TrainFails ==
    /\ pc = "train"
    /\ pc' = "error"
    /\ UNCHANGED <<weight_selection_algo, use_gpi_policy, transfer_q_table, log, writer,
                   policies, q_tables, allocated, ccs, producer, global_step,
                   num_iterations,
                   timesteps_per_iteration, iter, w, new_agent, value, removed_inds,
                   next_weight_call, last_log, obs, delete_indx, outcome>>

Evaluate ==
    /\ pc = "evaluate"
    /\ value' \in Values
    /\ pc' = "update"
    /\ UNCHANGED <<weight_selection_algo, use_gpi_policy, transfer_q_table, log, writer,
                   policies, q_tables, allocated, ccs, producer, global_step,
                   num_iterations,
                   timesteps_per_iteration, iter, w, new_agent, removed_inds,
                   next_weight_call, last_log, obs, delete_indx, outcome>>

\* policy_evaluation_mo raises
EvaluateFails ==
    /\ pc = "evaluate"
    /\ pc' = "error"
    /\ UNCHANGED <<weight_selection_algo, use_gpi_policy, transfer_q_table, log, writer,
                   policies, q_tables, allocated, ccs, producer, global_step,
                   num_iterations,
                   timesteps_per_iteration, iter, w, new_agent, value, removed_inds,
                   next_weight_call, last_log, obs, delete_indx, outcome>>

UpdateFrontier ==
    /\ pc = "update"
    /\ \E S \in SUBSET (0..Len(ccs)) :
        /\ ccs' = add_solution(ccs, value, S)
        /\ producer' = add_solution(producer, new_agent.id, S)
        /\ removed_inds' \in Listings(S)
    /\ pc' = "prune"
    /\ UNCHANGED <<weight_selection_algo, use_gpi_policy, transfer_q_table, log, writer,
                   policies, q_tables, allocated, global_step, num_iterations,
                   timesteps_per_iteration, iter, w, new_agent, value, next_weight_call,
                   last_log, obs, delete_indx, outcome>>

\* linear_support.add_solution raises
UpdateFrontierFails ==
    /\ pc = "update"
    /\ pc' = "error"
    /\ UNCHANGED <<weight_selection_algo, use_gpi_policy, transfer_q_table, log, writer,
                   policies, q_tables, allocated, ccs, producer, global_step,
                   num_iterations,
                   timesteps_per_iteration, iter, w, new_agent, value, removed_inds,
                   next_weight_call, last_log, obs, delete_indx, outcome>>

Prune ==
    /\ pc = "prune"
    /\ LET done == delete_policies(policies, removed_inds)
       IN  /\ policies' = done.policies
           /\ q_tables' = Collect(q_tables, done.policies)
           /\ pc' = IF done.raised = None THEN "log" ELSE "error"
    /\ UNCHANGED <<allocated, weight_selection_algo, use_gpi_policy, transfer_q_table, log,
                   writer,
                   ccs, producer, global_step, num_iterations, timesteps_per_iteration,
                   iter, w, new_agent, value, removed_inds, next_weight_call, last_log,
                   obs, delete_indx, outcome>>

\* the front handed to log_all_multi_policy_metrics
LoggedFront(gpi, front) == IF gpi THEN "gpi_front" ELSE front

\* a LOG step that emits metrics whether or not logging is enabled
log_always ==
    /\ pc = "log"
    /\ last_log' = <<[current_front |-> LoggedFront(use_gpi_policy, ccs),
                      global_step |-> global_step]>>
    /\ iter' = iter + 1
    /\ pc' = "loop"
    /\ UNCHANGED <<weight_selection_algo, use_gpi_policy, transfer_q_table, log, writer,
                   policies, q_tables, allocated, ccs, producer, global_step,
                   num_iterations,
                   timesteps_per_iteration, w, new_agent, value, removed_inds,
                   next_weight_call, obs, delete_indx, outcome>>

Log ==
    /\ pc = "log"
    /\ IF log /\ use_gpi_policy /\ policies = <<>>
       THEN /\ pc' = "error"                \* policy_evaluation_mo(agent=self): eval raises
            /\ UNCHANGED <<last_log, iter>>
       ELSE /\ last_log' = IF log
                           THEN <<[current_front |-> LoggedFront(use_gpi_policy, ccs),
                                   global_step |-> global_step]>>
                           ELSE last_log
            /\ iter' = iter + 1
            /\ pc' = "loop"
    /\ UNCHANGED <<weight_selection_algo, use_gpi_policy, transfer_q_table, log, writer,
                   policies, q_tables, allocated, ccs, producer, global_step,
                   num_iterations,
                   timesteps_per_iteration, w, new_agent, value, removed_inds,
                   next_weight_call, obs, delete_indx, outcome>>

\* a SHUTDOWN that returns without closing the writer
shutdown_leaves_open ==
    /\ pc = "loop"
    /\ iter >= num_iterations
    /\ pc' = "done"
    /\ UNCHANGED <<weight_selection_algo, use_gpi_policy, transfer_q_table, log, writer,
                   policies, q_tables, allocated, ccs, producer, global_step,
                   num_iterations,
                   timesteps_per_iteration, iter, w, new_agent, value, removed_inds,
                   next_weight_call, last_log, obs, delete_indx, outcome>>

Shutdown ==
    /\ pc = "loop"
    /\ iter >= num_iterations
    /\ writer' = IF writer # None THEN "closed" ELSE writer
    /\ pc' = "done"
    /\ UNCHANGED <<weight_selection_algo, use_gpi_policy, transfer_q_table, log,
                   policies, q_tables, allocated, ccs, producer, global_step,
                   num_iterations,
                   timesteps_per_iteration, iter, w, new_agent, value, removed_inds,
                   next_weight_call, last_log, obs, delete_indx, outcome>>

Init ==
    /\ pc = "new"
    /\ weight_selection_algo = None
    /\ use_gpi_policy = None
    /\ transfer_q_table = None
    /\ log = None
    /\ writer = None
    /\ policies = <<>>
    /\ q_tables = << >>
    /\ allocated = 0
    /\ ccs = <<>>
    /\ producer = <<>>
    /\ global_step = 0
    /\ num_iterations = None
    /\ timesteps_per_iteration = None
    /\ iter = None
    /\ w = Unbound
    /\ new_agent = Unbound
    /\ value = Unbound
    /\ removed_inds = Unbound
    /\ next_weight_call = NoCall
    /\ last_log = <<>>
    /\ obs = None
    /\ delete_indx = None
    /\ outcome = None

Next ==
    \/ Construct
    \/ TrainCall
    \/ SelectWeight
    \/ CreatePolicy
    \/ Train
    \/ TrainFails
    \/ Evaluate
    \/ EvaluateFails
    \/ UpdateFrontier
    \/ UpdateFrontierFails
    \/ Prune
    \/ Log
    \/ Shutdown

Spec == Init /\ [][Next]_vars

(***************************************************************************)
(* delete_policies as a public operation: a pool and an index list are     *)
(* drawn, and the call is applied.                                         *)
(***************************************************************************)
\* a pool of n trained policies, ids 0..n-1 in order
SamplePool(n) ==
    [i \in 1..n |-> [id |-> i - 1, weights |-> <<1, 0>>, q_table |-> i, global_step |-> i]]

\* the index lists drawn: up to MaxIndices positions, out-of-range ones included
IndexLists == UNION {[1..k -> (-(MaxDelete + 1))..MaxDelete] : k \in 0..MaxIndices}

InitDelete ==
    /\ pc = "delete_call"
    /\ weight_selection_algo = "random"
    /\ use_gpi_policy = FALSE
    /\ transfer_q_table = FALSE
    /\ log = FALSE
    /\ writer = None
    /\ \E n \in 0..MaxDelete :
        /\ policies = SamplePool(n)
        /\ q_tables = [i \in 1..n |-> FreshTable]
        /\ allocated = n
        /\ ccs = [i \in 1..n |-> <<1, 0>>]
        /\ producer = [i \in 1..n |-> i - 1]
        /\ global_step = n
    /\ num_iterations = None
    /\ timesteps_per_iteration = None
    /\ iter = None
    /\ w = Unbound
    /\ new_agent = Unbound
    /\ value = Unbound
    /\ removed_inds = Unbound
    /\ next_weight_call = NoCall
    /\ last_log = <<>>
    /\ obs = None
    /\ delete_indx \in IndexLists
    /\ outcome = None

DeleteCall ==
    /\ pc = "delete_call"
    /\ LET done == delete_policies(policies, delete_indx)
       IN  /\ policies' = done.policies
           /\ q_tables' = Collect(q_tables, done.policies)
           /\ outcome' = Raise(done.raised)
    /\ pc' = "returned"
    /\ UNCHANGED <<allocated, weight_selection_algo, use_gpi_policy, transfer_q_table, log,
                   writer,
                   ccs, producer, global_step, num_iterations, timesteps_per_iteration,
                   iter, w, new_agent, value, removed_inds, next_weight_call, last_log,
                   obs, delete_indx>>

SpecDelete == InitDelete /\ [][DeleteCall]_vars

(***************************************************************************)
(* eval as a public query: a pool, a frontier, a mode, an observation and  *)
(* a weight are drawn, and the query is answered.                          *)
(***************************************************************************)
InitEval ==
    /\ pc = "eval_call"
    /\ weight_selection_algo = "random"
    /\ use_gpi_policy \in BOOLEAN
    /\ transfer_q_table = FALSE
    /\ log = FALSE
    /\ writer = None
    /\ \E n \in 0..MaxPool :
        /\ policies = SamplePool(n)
        /\ q_tables \in [1..n -> Tables]
        /\ allocated = n
        /\ global_step = n
    /\ \E m \in 0..MaxPool :
        /\ ccs \in [1..m -> Values]
        /\ producer = [i \in 1..m |-> i - 1]
    /\ num_iterations = None
    /\ timesteps_per_iteration = None
    /\ iter = None
    /\ w \in QueryWeights
    /\ new_agent = Unbound
    /\ value = Unbound
    /\ removed_inds = Unbound
    /\ next_weight_call = NoCall
    /\ last_log = <<>>
    /\ obs \in States
    /\ delete_indx = None
    /\ outcome = None

EvalCall ==
    /\ pc = "eval_call"
    /\ outcome' = eval(policies, q_tables, ccs, use_gpi_policy, obs, w)
    /\ pc' = "returned"
    /\ UNCHANGED <<weight_selection_algo, use_gpi_policy, transfer_q_table, log, writer,
                   policies, q_tables, allocated, ccs, producer, global_step,
                   num_iterations,
                   timesteps_per_iteration, iter, w, new_agent, value, removed_inds,
                   next_weight_call, last_log, obs, delete_indx>>

SpecEval == InitEval /\ [][EvalCall]_vars

(***************************************************************************)
(* Properties.                                                             *)
(***************************************************************************)
\* the ids of the policies of a pool, in pool order
Ids(pool) == [i \in 1..Len(pool) |-> pool[i].id]

\* the set of entries of a list
Range(xs) == {xs[i] : i \in 1..Len(xs)}

\* the scalarized Q-value of pool member p (1-based) for action a (0-based)
SQ(p, a) == weighted_sum(q_tables[policies[p].q_table][obs][a + 1], w)

\* C1: index alignment.  From the end of PRUNE of an iteration until the next
\* policy is created (and after train returns), the pool and the frontier have
\* the same length and Pool[i] is the policy whose evaluation was submitted as
\* frontier entry i, for every i.
C1_IndexAlignment ==
    pc \in {"log", "loop", "create", "done"} =>
        /\ Len(policies) = Len(ccs)
        /\ Len(producer) = Len(ccs)
        /\ \A i \in 1..Len(policies) : policies[i].id = producer[i]

\* C1 witness: a PRUNE that removed the two oldest of three policies
C1_Witness ==
    /\ pc = "log"
    /\ removed_inds = <<0, 1>>
    /\ Ids(policies) = <<2>>
    /\ producer = <<2>>

\* C2: GPI action selection.  For a non-empty pool, eval in GPI mode returns
\* an action a* for which some policy's scalarized Q-value is the maximum of
\* the scalarized Q-values over all policies and all actions.
C2_GpiSelectsArgmax ==
    (pc = "returned" /\ use_gpi_policy /\ policies # <<>>) =>
        /\ outcome.raised = None
        /\ outcome.action \in Actions
        /\ \E best \in 1..Len(policies) :
             \A p \in 1..Len(policies), a \in Actions :
                 SQ(p, a) <= SQ(best, outcome.action)

\* C2 witness: pool [P1 best on objective 1 with action 0, P2 best on
\* objective 2 with action 1], queried with equal weights
C2_Witness ==
    /\ pc = "returned"
    /\ use_gpi_policy
    /\ Len(policies) = 2
    /\ w = <<1, 1>>
    /\ q_tables[1][obs] = <<(<<1, 0>>), (<<0, 0>>)>>
    /\ q_tables[2][obs] = <<(<<0, 0>>), (<<0, 1>>)>>
    /\ outcome.action = 0

\* C3: GPI monotonicity.  The best scalarized value the pool attains with the
\* GPI-selected action is at least the scalarized value every single pool
\* member attains with its own greedy action.
C3_GpiMonotone ==
    (pc = "returned" /\ use_gpi_policy /\ policies # <<>>) =>
        /\ outcome.raised = None
        /\ \A q \in 1..Len(policies) :
             \E p \in 1..Len(policies) :
                 SQ(p, outcome.action) >= SQ(q, SubPolicyEval(policies[q], q_tables, obs, w))

\* C3 witness: the second policy's greedy action beats the first policy's
C3_Witness ==
    /\ pc = "returned"
    /\ use_gpi_policy
    /\ Len(policies) = 2
    /\ SubPolicyEval(policies[1], q_tables, obs, w) = 0
    /\ SubPolicyEval(policies[2], q_tables, obs, w) = 1
    /\ SQ(2, 1) > SQ(1, 0)
    /\ outcome.action = 1

\* the index list names distinct valid positions 0..len-1 of the pool
DistinctInRange(idxs, pool) ==
    /\ \A i \in 1..Len(idxs) : 0 <= idxs[i] /\ idxs[i] < Len(pool)
    /\ \A i, j \in 1..Len(idxs) : i # j => idxs[i] # idxs[j]

\* C4: pruning result.  For a list of distinct in-range indices, delete_policies
\* leaves exactly the pool without the entries at those positions, the others in
\* their original order; the result is a function of the set of indices alone.
C4_PruneRemovesExactlyTheSet ==
    [][(pc = "delete_call" /\ DistinctInRange(delete_indx, policies)) =>
          /\ policies' = Without(policies, Range(delete_indx))
          /\ outcome'.raised = None]_vars

\* C4 witness: indices listed in ascending order [0, 2] on a 4-element pool
C4_Witness ==
    /\ pc = "returned"
    /\ delete_indx = <<0, 2>>
    /\ Ids(policies) = <<1, 3>>
    /\ outcome.raised = None

\* C5: an index list holding a position that is not in 0..len(Pool)-1 makes
\* delete_policies end in an error.
C5_OutOfRangeRaises ==
    [][(pc = "delete_call" /\
        \E i \in 1..Len(delete_indx) :
            delete_indx[i] < 0 \/ delete_indx[i] >= Len(policies)) =>
          outcome'.raised # None]_vars

\* C6: with an empty pool, eval ends in an error in both modes and returns no
\* action.
C6_EmptyPoolRaises ==
    (pc = "returned" /\ policies = <<>>) =>
        /\ outcome.raised # None
        /\ outcome.action = None

\* C6 witness: a GPI query before any policy exists
C6_Witness ==
    /\ pc = "returned"
    /\ policies = <<>>
    /\ ccs = <<>>
    /\ use_gpi_policy
    /\ outcome.raised = "ValueError"

\* C7: an unrecognized weight_selection_algo is rejected by the constructor:
\* the object never becomes usable, train is never entered with it, and the
\* name given is not replaced by a default.
C7_UnknownAlgoRejected ==
    /\ pc \notin {"new", "rejected"} => weight_selection_algo \in {"random", "ols", "gpi-ls"}
    /\ pc = "rejected" =>
          /\ weight_selection_algo \notin {"random", "ols", "gpi-ls"}
          /\ policies = <<>>
          /\ iter = None

\* C7 witness: construction with the name "sgd" failed
C7_Witness == pc = "rejected" /\ weight_selection_algo = "sgd"

\* C8: best-match facade.  Without GPI and with a non-empty pool aligned with the
\* frontier, eval delegates to Pool[j], j the first index maximizing
\* dot(weight, frontier[j]), and returns that policy's own action; a pool of one
\* member is always delegated to.
C8_BestMatchDelegates ==
    (pc = "returned" /\ ~use_gpi_policy /\ policies # <<>> /\ Len(policies) = Len(ccs)) =>
        /\ outcome.raised = None
        /\ outcome.by \in 0..(Len(policies) - 1)
        /\ \A j \in 1..Len(ccs) : Dot(w, ccs[j]) <= Dot(w, ccs[outcome.by + 1])
        /\ \A j \in 1..outcome.by : Dot(w, ccs[j]) < Dot(w, ccs[outcome.by + 1])
        /\ outcome.action = SubPolicyEval(policies[outcome.by + 1], q_tables, obs, w)
        /\ Len(policies) = 1 => outcome.by = 0

\* C8 witness: the second of two policies matches the queried weight best
C8_Witness ==
    /\ pc = "returned"
    /\ ~use_gpi_policy
    /\ Len(policies) = 2
    /\ ccs = <<(<<1, 0>>), (<<0, 1>>)>>
    /\ w = <<0, 1>>
    /\ outcome.by = 1

\* C9: transfer has copy semantics.  The table a new policy receives at creation
\* holds the source's contents under a reference no other policy has, and the
\* training of the new policy leaves the table of every other pool member
\* unchanged.
C9_TransferIsCopy ==
    [][/\ (pc = "create" /\ pc' = "train" /\ transfer_q_table /\ policies # <<>>) =>
            /\ \E i \in 1..Len(policies) :
                 q_tables'[policies'[Len(policies')].q_table] = q_tables[policies[i].q_table]
            /\ \A i \in 1..Len(policies) :
                 policies'[Len(policies')].q_table # policies[i].q_table
       /\ (pc = "train" /\ pc' = "evaluate") =>
            \A i \in 1..(Len(policies) - 1) :
                q_tables'[policies'[i].q_table] = q_tables[policies[i].q_table]]_vars

\* C9 witness: a policy seeded by transfer was trained to a table that differs
\* from its source's
C9_Witness ==
    /\ pc = "evaluate"
    /\ transfer_q_table
    /\ Len(policies) = 2
    /\ q_tables[policies[1].q_table] # q_tables[policies[2].q_table]

\* C10: global step accounting.  global_step never decreases; TRAIN starts the
\* new policy's counter at the coordinator's global_step and the coordinator
\* takes the counter back, so that with every training consuming
\* timesteps_per_iteration steps, global_step is iter * timesteps_per_iteration
\* after iter iterations.
C10_GlobalStepAccounting ==
    [][/\ global_step' >= global_step
       /\ (pc = "train" /\ pc' = "evaluate") =>
            /\ policies'[Len(policies')].global_step = global_step + timesteps_per_iteration
            /\ global_step' = policies'[Len(policies')].global_step
       /\ pc' \in {"loop", "done"} =>
            global_step' = iter' * timesteps_per_iteration']_vars

\* C10 witness: three iterations of two steps each
C10_Witness ==
    /\ pc = "done"
    /\ num_iterations = 3
    /\ timesteps_per_iteration = 2
    /\ global_step = 6

\* C11: pool size bound.  Every creation appends exactly one policy that stores
\* the weight selected for it; a policy's stored weight never changes while it
\* is in the pool and has two non-negative components; after iter completed
\* iterations the pool holds at most iter policies.
C11_PoolBoundAndWeights ==
    [][/\ (pc = "create" /\ pc' = "train") =>
            /\ Len(policies') = Len(policies) + 1
            /\ policies'[Len(policies')].weights = w
       /\ \A i \in 1..Len(policies), j \in 1..Len(policies') :
            policies[i].id = policies'[j].id => policies'[j].weights = policies[i].weights
       /\ \A j \in 1..Len(policies') :
            /\ Len(policies'[j].weights) = 2
            /\ \A k \in 1..2 : policies'[j].weights[k] >= 0
       /\ pc' \in {"loop", "done"} => Len(policies') <= iter'
       /\ pc' \notin {"create", "train"} => Len(policies') <= Len(policies)]_vars

\* C11 witness: strategy "random", no transfer, three iterations, one of the
\* three policies pruned
C11_Witness ==
    /\ pc = "done"
    /\ weight_selection_algo = "random"
    /\ ~transfer_q_table
    /\ num_iterations = 3
    /\ Len(policies) = 2
    /\ policies[1].weights # policies[2].weights

\* C12: weight-selection dispatch.  The strategy is the one given to the
\* constructor and never changes; with "random" the weight is drawn without
\* any call of next_weight; with "ols" next_weight is called with no evaluator
\* and no environment; with "gpi-ls" it is called with the coordinator itself
\* and the evaluation environment.
C12_Dispatch ==
    [][/\ pc # "new" => weight_selection_algo' = weight_selection_algo
       /\ weight_selection_algo' = "random" => next_weight_call' = NoCall
       /\ (pc = "loop" /\ pc' = "create") =>
            /\ w' \in Weights
            /\ weight_selection_algo = "ols" =>
                 next_weight_call' = [algo |-> "ols", gpi_agent |-> None, env |-> None]
            /\ weight_selection_algo = "gpi-ls" =>
                 next_weight_call' =
                     [algo |-> "gpi-ls", gpi_agent |-> "self", env |-> "eval_env"]
       /\ ~(pc = "loop" /\ pc' = "create") => next_weight_call' = next_weight_call]_vars

\* C12 witness: the second iteration of a "gpi-ls" run has selected its weight
C12_Witness ==
    /\ pc = "create"
    /\ iter = 1
    /\ weight_selection_algo = "gpi-ls"
    /\ next_weight_call = [algo |-> "gpi-ls", gpi_agent |-> "self", env |-> "eval_env"]
    /\ w \in Weights

(***************************************************************************)
(* The train loop with a frontier service that honours the domination      *)
(* contract: the positions add_solution reports are entries that are       *)
(* worse-or-equal, in every objective, to an entry it retains, and the     *)
(* entries it retains are pairwise non-dominated.  Spec lets the service   *)
(* report any set of positions; SpecDominance restricts it to these.       *)
(***************************************************************************)
\* u is worse than or equal to v in every objective
WorseOrEqual(u, v) == \A k \in 1..Len(u) : u[k] <= v[k]

\* the sets of 0-based positions a domination-pruning service may report for front
DominatedSets(front) ==
    {S \in SUBSET (0..(Len(front) - 1)) :
        /\ \A i \in S : \E j \in (0..(Len(front) - 1)) \ S :
               WorseOrEqual(front[i + 1], front[j + 1])
        /\ \A i, j \in (0..(Len(front) - 1)) \ S :
               i # j => ~WorseOrEqual(front[i + 1], front[j + 1])}

UpdateFrontierDominance ==
    /\ pc = "update"
    /\ \E S \in DominatedSets(Append(ccs, value)) :
        /\ ccs' = add_solution(ccs, value, S)
        /\ producer' = add_solution(producer, new_agent.id, S)
        /\ removed_inds' \in Listings(S)
    /\ pc' = "prune"
    /\ UNCHANGED <<weight_selection_algo, use_gpi_policy, transfer_q_table, log, writer,
                   policies, q_tables, allocated, global_step, num_iterations,
                   timesteps_per_iteration, iter, w, new_agent, value, next_weight_call,
                   last_log, obs, delete_indx, outcome>>

NextDominance ==
    \/ Construct
    \/ TrainCall
    \/ SelectWeight
    \/ CreatePolicy
    \/ Train
    \/ TrainFails
    \/ Evaluate
    \/ EvaluateFails
    \/ UpdateFrontierDominance
    \/ UpdateFrontierFails
    \/ Prune
    \/ Log
    \/ Shutdown

SpecDominance == Init /\ [][NextDominance]_vars

\* the frontier entries submitted for the policy with this id
EntriesOf(id) == {k \in 1..Len(producer) : producer[k] = id}

C14_GpiTieBreakRowMajor ==
    (pc = "returned" /\ use_gpi_policy /\ policies # <<>>) =>
        /\ outcome.raised = None
        /\ outcome.action \in Actions
        /\ \E p \in 1..Len(policies) :
            /\ \A q \in 1..Len(policies), a \in Actions : SQ(q, a) <= SQ(p, outcome.action)
            /\ \A q \in 1..(p - 1), a \in Actions : SQ(q, a) < SQ(p, outcome.action)
            /\ \A a \in 0..(outcome.action - 1) : SQ(p, a) < SQ(p, outcome.action)

\* C14 witness: the first policy attains the maximum with action 1 and the
\* second with action 0; the answer is the first policy's action
C14_Witness ==
    /\ pc = "returned"
    /\ use_gpi_policy
    /\ Len(policies) = 2
    /\ SQ(1, 0) < SQ(1, 1)
    /\ SQ(2, 0) = SQ(1, 1)
    /\ SQ(2, 1) < SQ(2, 0)
    /\ outcome.action = 1

\* C15: iteration step ordering.  The steps of an iteration follow one another
\* in the order SELECT_WEIGHT, CREATE_POLICY, TRAIN, EVALUATE, UPDATE_FRONTIER,
\* PRUNE, LOG, each taken once; the iteration counter advances only when LOG
\* completes, so the next SELECT_WEIGHT comes after PRUNE and LOG; metrics are
\* emitted only in LOG and only when logging is enabled; and the only policy
\* whose training state changes is the one created in the current iteration,
\* during TRAIN.
C15_StepOrder ==
    [][/\ pc = "loop" => (pc' \in {"create", "done"} /\ (pc' = "create" <=> iter < num_iterations))
       /\ pc = "create" => pc' \in {"train", "error"}
       /\ pc = "train" => pc' \in {"evaluate", "error"}
       /\ pc = "evaluate" => pc' \in {"update", "error"}
       /\ pc = "update" => pc' \in {"prune", "error"}
       /\ pc = "prune" => pc' \in {"log", "error"}
       /\ pc = "log" => pc' \in {"loop", "error"}
       /\ pc \in {"done", "error", "rejected"} => pc' = pc
       /\ (pc \notin {"new", "ready"} /\ iter' # iter) =>
            (pc = "log" /\ pc' = "loop" /\ iter' = iter + 1)
       /\ (pc = "log" /\ pc' = "loop") => iter' = iter + 1
       /\ last_log' # last_log => (log /\ pc = "log")
       /\ (pc = "log" /\ pc' = "loop" /\ log) =>
            last_log' = <<[current_front |-> IF use_gpi_policy THEN "gpi_front" ELSE ccs,
                           global_step |-> global_step]>>
       /\ \A i \in 1..Len(policies), j \in 1..Len(policies') :
            (policies[i].id = policies'[j].id /\ policies[i] # policies'[j]) =>
                (pc = "train" /\ pc' = "evaluate" /\ policies[i].id = iter
                 /\ i = Len(policies))]_vars

\* C15 witness: the second iteration has selected its weight after the first
\* one ran through LOG with logging enabled
C15_Witness ==
    /\ pc = "create"
    /\ iter = 1
    /\ log
    /\ last_log # <<>>
    /\ Len(policies) = 1
    /\ policies[1].global_step = timesteps_per_iteration

(***************************************************************************)
(* The train loop when every collaborator call returns: the steps that     *)
(* stand for a raising collaborator are left out.  The specification       *)
(* starts where train() has been called; the interpreter then takes the    *)
(* next step of the loop, which is the fairness condition.                 *)
(***************************************************************************)
\* train() has been called on a newly constructed object
InitRunning ==
    /\ pc = "loop"
    /\ weight_selection_algo \in {algo \in Algos : KnownAlgo(algo)}
    /\ use_gpi_policy \in BOOLEAN
    /\ transfer_q_table \in BOOLEAN
    /\ log \in BOOLEAN
    /\ writer = (IF log THEN "open" ELSE None)
    /\ policies = <<>>
    /\ q_tables = << >>
    /\ allocated = 0
    /\ ccs = <<>>
    /\ producer = <<>>
    /\ global_step = 0
    /\ num_iterations \in 0..MaxIterations
    /\ timesteps_per_iteration \in StepBudgets
    /\ iter = 0
    /\ w = Unbound
    /\ new_agent = Unbound
    /\ value = Unbound
    /\ removed_inds = Unbound
    /\ next_weight_call = NoCall
    /\ last_log = <<>>
    /\ obs = None
    /\ delete_indx = None
    /\ outcome = None

\* a step of a running train() call
NextReturning ==
    \/ SelectWeight
    \/ CreatePolicy
    \/ Train
    \/ Evaluate
    \/ UpdateFrontierDominance
    \/ Prune
    \/ Log
    \/ Shutdown

SpecReturning == InitRunning /\ [][NextReturning]_vars /\ WF_vars(NextReturning)

\* C16: termination.  When every collaborator call returns, train() runs to
\* SHUTDOWN; it gets there after exactly num_iterations iterations, each of
\* which created and trained one policy, whatever the frontier did; the writer
\* is closed there, once, and only if there is one; and nothing runs after it
\* is closed.
C16_Termination ==
    /\ (pc = "loop") ~> (pc = "done")
    /\ [](pc # "error")
    /\ [](pc = "done" =>
            /\ iter = num_iterations
            /\ allocated = num_iterations
            /\ global_step = num_iterations * timesteps_per_iteration
            /\ writer = (IF log THEN "closed" ELSE None))
    /\ [](pc \in {"ready", "loop", "create", "train", "evaluate", "update", "prune", "log"} =>
            writer = (IF log THEN "open" ELSE None))
    /\ [](pc \in {"create", "train", "evaluate", "update", "prune", "log"} =>
            (iter < num_iterations /\ allocated \in {iter, iter + 1}))

\* C16 witness: three iterations ran, the frontier kept one entry, and the
\* writer was closed at SHUTDOWN
C16_Witness ==
    /\ pc = "done"
    /\ num_iterations = 3
    /\ allocated = 3
    /\ Len(ccs) = 1
    /\ writer = "closed"

\* C17: transfer source selection.  When CREATE_POLICY adds the policy for
\* weight w: if transfer is enabled and the pool is non-empty, the new policy's
\* table has the content of the table of Pool[j], j the first position that
\* maximizes dot(w, frontier[j]) over the frontier as it stands; otherwise it
\* is the new policy's own empty table.  Either way the new policy has a table
\* of its own and no pool member or pool member's table changes.
C17_TransferSource ==
    [][(pc = "create" /\ pc' = "train") =>
        LET n == Len(policies)
            new == policies'[n + 1]
        IN  /\ Len(policies') = n + 1
            /\ \A i \in 1..n :
                 /\ policies'[i] = policies[i]
                 /\ new.q_table # policies[i].q_table
                 /\ q_tables'[policies[i].q_table] = q_tables[policies[i].q_table]
            /\ IF transfer_q_table /\ n > 0
               THEN \E j \in 1..Len(ccs) :
                      /\ \A k \in 1..Len(ccs) : Dot(w, ccs[k]) <= Dot(w, ccs[j])
                      /\ \A k \in 1..(j - 1) : Dot(w, ccs[k]) < Dot(w, ccs[j])
                      /\ j <= n
                      /\ q_tables'[new.q_table] = q_tables[policies[j].q_table]
               ELSE q_tables'[new.q_table] = FreshTable]_vars

\* C17 witness: with two policies registered, the third is seeded from the
\* first, which matches w best, and not from the newest
C17_Witness ==
    /\ pc = "train"
    /\ transfer_q_table
    /\ Len(policies) = 3
    /\ ccs = <<(<<1, 0>>), (<<0, 1>>)>>
    /\ w = <<1, 0>>
    /\ q_tables[policies[3].q_table] = q_tables[policies[1].q_table]
    /\ q_tables[policies[3].q_table] # q_tables[policies[2].q_table]
    /\ policies[3].q_table # policies[1].q_table

\* C18: add-then-immediately-prune.  When the removal list of UPDATE_FRONTIER
\* names the last pool position, PRUNE of the same iteration removes the newly
\* trained policy, and the pool it leaves is the pool the iteration started
\* with, minus the other positions named.  The LOG step that follows (in
\* non-GPI mode) reports the frontier as it stands after pruning, in a record of
\* the usual shape, and that frontier has no entry of the discarded policy.
C18_AddThenPrune ==
    [][/\ (pc = "prune" /\ (Len(policies) - 1) \in Range(removed_inds)) =>
            LET before == SubSeq(policies, 1, Len(policies) - 1)
            IN  /\ pc' = "log"
                /\ \A j \in 1..Len(policies') : policies'[j].id # new_agent.id
                /\ policies' = Without(before, Range(removed_inds))
                /\ Len(policies') = Len(ccs)
                /\ new_agent.id \notin Range(producer)
       /\ (pc = "log" /\ log /\ ~use_gpi_policy) =>
            /\ pc' = "loop"
            /\ last_log' = <<[current_front |-> ccs, global_step |-> global_step]>>
            /\ Len(ccs) = Len(policies)
            /\ \A k \in 1..Len(ccs) : \E j \in 1..Len(policies) : policies[j].id = producer[k]]_vars

\* C18 witness: the second iteration's policy was added and removed at once;
\* the pool is the first policy alone, and the frontier logged is the
\* frontier after pruning
C18_Witness ==
    /\ pc = "loop"
    /\ iter = 2
    /\ log
    /\ ~use_gpi_policy
    /\ removed_inds = <<1>>
    /\ Ids(policies) = <<0>>
    /\ producer = <<0>>
    /\ last_log = <<[current_front |-> ccs, global_step |-> global_step]>>

\* C19: a failed iteration is abandoned cleanly.  When TRAIN, EVALUATE or
\* UPDATE_FRONTIER fails, train() stops there, nothing runs afterwards, and the
\* pool is as it was before the iteration began: the policy of the failed
\* iteration is not in it, and the pool is as long as the frontier.
C19_FailedIterationAbandoned ==
    [][/\ (pc \in {"train", "evaluate", "update"} /\ pc' = "error") =>
            /\ \A j \in 1..Len(policies') : policies'[j].id # iter
            /\ Len(policies') = Len(ccs')
       /\ pc = "error" => pc' = "error"]_vars

\* C20: mid-iteration pool shape.  From CREATE_POLICY until the frontier is
\* updated (during TRAIN, EVALUATE and up to UPDATE_FRONTIER), the pool has one
\* entry more than the frontier, the extra entry is the policy of the current
\* iteration and sits last, the positions before it are aligned with the
\* frontier, and a best-match eval, for any weight, either delegates to one of
\* those registered policies or (with an empty frontier) raises: it never
\* selects the new policy.
C20_MidIterationShape ==
    pc \in {"train", "evaluate", "update"} =>
        /\ Len(policies) = Len(ccs) + 1
        /\ policies[Len(policies)].id = new_agent.id
        /\ new_agent.id = iter
        /\ Len(producer) = Len(ccs)
        /\ \A i \in 1..Len(ccs) : policies[i].id = producer[i]
        /\ \A i \in 1..Len(ccs) : policies[i].id # new_agent.id
        /\ \A state \in States, wt \in QueryWeights :
             LET answer == BestMatch(policies, q_tables, ccs, state, wt)
             IN  IF ccs = <<>>
                 THEN answer.raised = "ValueError"
                 ELSE /\ answer.raised = None
                      /\ answer.by < Len(ccs)
                      /\ policies[answer.by + 1].id # new_agent.id

\* C20 witness: the third policy has been trained and awaits its evaluation
\* while the two before it hold the frontier
C20_Witness ==
    /\ pc = "evaluate"
    /\ Len(policies) = 3
    /\ Len(ccs) = 2
    /\ Ids(policies) = <<0, 1, 2>>
    /\ producer = <<0, 1>>

====
